---- MODULE Spec2Model ----
(***************************************************************************)
(* Model of the notebook documentation pipeline of Notebook-AI.            *)
(*                                                                         *)
(* Two entry points carry a copy of the pipeline: app.py (command line)    *)
(* and streamlit_app.py (interactive).  The variable `variant` selects     *)
(* which copy a behaviour runs.  Text is a sequence of one-character       *)
(* strings, so that str.strip() and the error-marker literals are what     *)
(* the code makes them.                                                    *)
(***************************************************************************)
EXTENDS Integers, Sequences, FiniteSets, TLC

VARIABLES
    variant,      \* "app" | "streamlit": which source file is running
    src,          \* the input notebook: sequence of [cell_type, source]
    cells,        \* result of extract_cells: sequence of [type, content]
    new_nb,       \* new_nb.cells, the output document under construction
    prov,         \* history: for each output cell, what put it there
    full_context, \* the joined code handed to every generate_cell_doc call
    idx,          \* position of the for loop over cells (1-based)
    pc,           \* position inside create_documented_notebook
    gpc,          \* position inside generate_cell_doc
    garg,         \* cell_content argument of the running generate_cell_doc
    gret,         \* value returned by the last generate_cell_doc
    calls,        \* history: every client.chat.completions.create issued
    results,      \* history: outcome and returned text of every finished call
    inflight,     \* number of completion requests awaiting a response
    dl            \* state of download_colab_notebook

vars == <<variant, src, cells, new_nb, prov, full_context, idx, pc,
          gpc, garg, gret, calls, results, inflight, dl>>

pipeVars == <<variant, src, cells, new_nb, prov, full_context, idx, pc,
              gpc, garg, gret, calls, results, inflight>>

----------------------------------------------------------------------------
(* Bounds *)

MaxCells == 2

----------------------------------------------------------------------------
(* Text *)

Whitespace == {" ", "\n", "\t"}

RECURSIVE LStrip(_)
LStrip(s) ==
    IF s /= <<>> /\ Head(s) \in Whitespace THEN LStrip(Tail(s)) ELSE s

RECURSIVE RStrip(_)
RStrip(s) ==
    IF s /= <<>> /\ s[Len(s)] \in Whitespace
    THEN RStrip(SubSeq(s, 1, Len(s) - 1))
    ELSE s

\* str.strip()
Strip(s) == RStrip(LStrip(s))

\* sep.join(parts)
RECURSIVE Join(_, _)
Join(sep, parts) ==
    IF parts = <<>> THEN <<>>
    ELSE IF Len(parts) = 1 THEN parts[1]
    ELSE parts[1] \o sep \o Join(sep, Tail(parts))

StartsWith(s, p) == Len(s) >= Len(p) /\ SubSeq(s, 1, Len(p)) = p

\* "# Jupyter Notebook Documentation\n\n*Error generating overview*"
ErrOverviewApp == <<"#", " ", "J", "u", "p", "y", "t", "e", "r", " ", "N", "o", "t", "e", "b", "o", "o", "k", " ", "D", "o", "c", "u", "m", "e", "n", "t", "a", "t", "i", "o", "n", "\n", "\n", "*", "E", "r", "r", "o", "r", " ", "g", "e", "n", "e", "r", "a", "t", "i", "n", "g", " ", "o", "v", "e", "r", "v", "i", "e", "w", "*">>

\* "# Jupyter Notebook Documentation\n\n*Error generating overview: "
ErrOverviewStem == <<"#", " ", "J", "u", "p", "y", "t", "e", "r", " ", "N", "o", "t", "e", "b", "o", "o", "k", " ", "D", "o", "c", "u", "m", "e", "n", "t", "a", "t", "i", "o", "n", "\n", "\n", "*", "E", "r", "r", "o", "r", " ", "g", "e", "n", "e", "r", "a", "t", "i", "n", "g", " ", "o", "v", "e", "r", "v", "i", "e", "w", ":", " ">>

\* "*Error generating documentation*"
ErrDocApp == <<"*", "E", "r", "r", "o", "r", " ", "g", "e", "n", "e", "r", "a", "t", "i", "n", "g", " ", "d", "o", "c", "u", "m", "e", "n", "t", "a", "t", "i", "o", "n", "*">>

\* "*Error generating documentation: "
ErrDocStem == <<"*", "E", "r", "r", "o", "r", " ", "g", "e", "n", "e", "r", "a", "t", "i", "n", "g", " ", "d", "o", "c", "u", "m", "e", "n", "t", "a", "t", "i", "o", "n", ":", " ">>

----------------------------------------------------------------------------
(* Inputs *)

Variants == {"app", "streamlit"}

\* cell_type values of nbformat v4
CellTypes == {"code", "markdown", "raw"}

\* cell sources: empty, whitespace-only, plain, with leading whitespace
Sources == {<<>>, <<" ">>, <<"x">>, <<" ", "x">>}

SrcCells == [cell_type : CellTypes, source : Sources]

Notebooks == UNION {[1..n -> SrcCells] : n \in 0..MaxCells}

\* str(e) of the exceptions the completion call raises
Causes == {<<"4", "0", "1">>, <<"t", "i", "m", "e", "o", "u", "t">>}

\* message.content of the responses: empty, whitespace-only, plain,
\* padded, and text that reads like the error marker
Contents == {<<>>, <<" ">>, <<"d">>, <<" ", "d", "\n">>, ErrDocApp}

\* what one client.chat.completions.create can do:
\*   "text"  - a response whose message.content is a string
\*   "none"  - a response whose message.content is None
\*   "raise" - the call raises (transport or service error)
Outcomes ==
    [kind : {"text"}, text : Contents, cause : {<<>>}]
      \cup [kind : {"none"}, text : {<<>>},
            cause : {<<"N", "o", "n", "e", "T", "y", "p", "e">>}]
      \cup [kind : {"raise"}, text : {<<>>}, cause : Causes]

\* the try body raised: either the call, or .strip() on None
Raised(o) == o.kind \in {"raise", "none"}

----------------------------------------------------------------------------
(* Notebook cells *)

new_markdown_cell(source) == [cell_type |-> "markdown", source |-> source]

new_code_cell(source) == [cell_type |-> "code", source |-> source]

\* extract_cells: [{'type': cell.cell_type, 'content': cell.source} ...]
extract_cells(nb) ==
    [i \in 1..Len(nb) |-> [type |-> nb[i].cell_type, content |-> nb[i].source]]

IsCode(cell) == cell.type = "code"

CodeContents(cs) ==
    LET code == SelectSeq(cs, IsCode)
    IN  [i \in 1..Len(code) |-> code[i].content]

\* all_code of get_notebook_overview: "\n".join(code contents)
all_code(cs) == Join(<<"\n">>, CodeContents(cs))

\* full_context of create_documented_notebook: "\n\n".join(code contents)
FullContext(cs) == Join(<<"\n", "\n">>, CodeContents(cs))

----------------------------------------------------------------------------
(* get_notebook_overview *)

\* the except branch
OverviewOnError(v, cause) ==
    IF v = "app" THEN ErrOverviewApp
    ELSE ErrOverviewStem \o cause \o <<"*">>

\* value returned for an outcome of the completion call
OverviewResult(v, o) ==
    IF Raised(o) THEN OverviewOnError(v, o.cause) ELSE Strip(o.text)

----------------------------------------------------------------------------
(* generate_cell_doc *)

\* variation: the early return taken on the opposite condition
GenCellDocSkipsInverted(v, cell_content) ==
    v = "streamlit" /\ Strip(cell_content) /= <<>>

\* the early return of streamlit_app.py; app.py has none
GenCellDocSkips(v, cell_content) ==
    v = "streamlit" /\ Strip(cell_content) = <<>>

\* variation: the except branch swallows the failure
CellDocOnErrorSilent(v, cause) == <<>>

\* the except branch
CellDocOnError(v, cause) ==
    IF v = "app" THEN ErrDocApp
    ELSE ErrDocStem \o cause \o <<"*">>

\* value returned for an outcome of the completion call
CellDocResult(v, o) ==
    IF Raised(o) THEN CellDocOnError(v, o.cause) ELSE Strip(o.text)

----------------------------------------------------------------------------
(* create_documented_notebook *)

\* variation: the if without the .strip() test
NeedsDocAnyCode(cell) == cell.type = "code"

\* the condition of the if in the loop
NeedsDoc(cell) == cell.type = "code" /\ Strip(cell.content) /= <<>>

\* the condition of the elif in the loop
IsMarkdown(cell) == cell.type = "markdown"

\* variation: the commentary appended after the code cell
EmitDocumentedAfter(doc, content) ==
    IF doc /= <<>>
    THEN <<new_code_cell(content), new_markdown_cell(doc)>>
    ELSE <<new_code_cell(content)>>

\* variation: the commentary appended without the `if doc` test
EmitDocumentedAlways(doc, content) ==
    <<new_markdown_cell(doc), new_code_cell(content)>>

\* cells appended once generate_cell_doc has returned doc
EmitDocumented(doc, content) ==
    IF doc /= <<>>
    THEN <<new_markdown_cell(doc), new_code_cell(content)>>
    ELSE <<new_code_cell(content)>>

\* history tags for the cells the if branch appends for cell i
ProvDocumented(emitted, i) ==
    [k \in 1..Len(emitted) |->
        [role |-> IF emitted[k].cell_type = "markdown" THEN "doc" ELSE "orig",
         of |-> i]]

DlIdle == [pc |-> "off"]

Init ==
    /\ variant \in Variants
    /\ src \in Notebooks
    /\ cells = <<>>
    /\ new_nb = <<>>
    /\ prov = <<>>
    /\ full_context = <<>>
    /\ idx = 0
    /\ pc = "start"
    /\ gpc = "idle"
    /\ garg = <<>>
    /\ gret = <<>>
    /\ calls = <<>>
    /\ results = <<>>
    /\ inflight = 0
    /\ dl = DlIdle

\* extract_cells succeeds; get_notebook_overview builds its prompt and
\* issues the completion call
ReadAndRequestOverview ==
    /\ pc = "start"
    /\ cells' = extract_cells(src)
    /\ calls' = Append(calls, [target |-> 0, code |-> all_code(cells'),
                               context |-> <<>>])
    /\ inflight' = inflight + 1
    /\ pc' = "overview"
    /\ UNCHANGED <<variant, src, new_nb, prov, full_context, idx,
                   gpc, garg, gret, results, dl>>

\* the input cannot be read or parsed: the exception leaves
\* create_documented_notebook
ReadFails ==
    /\ pc = "start"
    /\ pc' = "aborted"
    /\ UNCHANGED <<variant, src, cells, new_nb, prov, full_context, idx,
                   gpc, garg, gret, calls, results, inflight, dl>>

\* the overview call ends; the overview becomes the first cell and
\* full_context is computed
OverviewReturns ==
    /\ pc = "overview"
    /\ \E o \in Outcomes :
         LET overview == OverviewResult(variant, o) IN
           /\ results' = Append(results, [target |-> 0, outcome |-> o,
                                          returned |-> overview])
           /\ new_nb' = Append(new_nb, new_markdown_cell(overview))
           /\ prov' = Append(prov, [role |-> "overview", of |-> 0])
    /\ inflight' = inflight - 1
    /\ full_context' = FullContext(cells)
    /\ idx' = 1
    /\ pc' = "loop"
    /\ UNCHANGED <<variant, src, cells, gpc, garg, gret, calls, dl>>

\* loop body, if branch: call generate_cell_doc
CallGenerateCellDoc ==
    /\ pc = "loop"
    /\ idx <= Len(cells)
    /\ NeedsDoc(cells[idx])
    /\ garg' = cells[idx].content
    /\ gpc' = "entry"
    /\ pc' = "in_doc"
    /\ UNCHANGED <<variant, src, cells, new_nb, prov, full_context, idx,
                   gret, calls, results, inflight, dl>>

\* generate_cell_doc up to the completion call (or the early return)
GenerateCellDocEnter ==
    /\ gpc = "entry"
    /\ IF GenCellDocSkips(variant, garg)
       THEN /\ gret' = <<>>
            /\ gpc' = "returned"
            /\ UNCHANGED <<calls, inflight>>
       ELSE /\ calls' = Append(calls, [target |-> idx, code |-> garg,
                                       context |-> full_context])
            /\ inflight' = inflight + 1
            /\ gpc' = "waiting"
            /\ UNCHANGED gret
    /\ UNCHANGED <<variant, src, cells, new_nb, prov, full_context, idx,
                   pc, garg, results, dl>>

\* the completion call of generate_cell_doc ends
GenerateCellDocReturns ==
    /\ gpc = "waiting"
    /\ \E o \in Outcomes :
         /\ gret' = CellDocResult(variant, o)
         /\ results' = Append(results, [target |-> idx, outcome |-> o,
                                        returned |-> gret'])
    /\ inflight' = inflight - 1
    /\ gpc' = "returned"
    /\ UNCHANGED <<variant, src, cells, new_nb, prov, full_context, idx,
                   pc, garg, calls, dl>>

\* loop body, if branch: after generate_cell_doc
AppendDocumented ==
    /\ pc = "in_doc"
    /\ gpc = "returned"
    /\ LET emitted == EmitDocumented(gret, cells[idx].content) IN
         /\ new_nb' = new_nb \o emitted
         /\ prov' = prov \o ProvDocumented(emitted, idx)
    /\ idx' = idx + 1
    /\ gpc' = "idle"
    /\ pc' = "loop"
    /\ UNCHANGED <<variant, src, cells, full_context, garg, gret, calls,
                   results, inflight, dl>>

\* loop body, elif branch
AppendMarkdown ==
    /\ pc = "loop"
    /\ idx <= Len(cells)
    /\ ~NeedsDoc(cells[idx])
    /\ IsMarkdown(cells[idx])
    /\ new_nb' = Append(new_nb, new_markdown_cell(cells[idx].content))
    /\ prov' = Append(prov, [role |-> "orig", of |-> idx])
    /\ idx' = idx + 1
    /\ UNCHANGED <<variant, src, cells, full_context, pc, gpc, garg, gret,
                   calls, results, inflight, dl>>

\* loop body, neither branch: nothing is appended for the cell
PassOver ==
    /\ pc = "loop"
    /\ idx <= Len(cells)
    /\ ~NeedsDoc(cells[idx])
    /\ ~IsMarkdown(cells[idx])
    /\ idx' = idx + 1
    /\ UNCHANGED <<variant, src, cells, new_nb, prov, full_context, pc,
                   gpc, garg, gret, calls, results, inflight, dl>>

\* the loop is over: the document is written (app.py) or returned
Finish ==
    /\ pc = "loop"
    /\ idx > Len(cells)
    /\ pc' = "done"
    /\ UNCHANGED <<variant, src, cells, new_nb, prov, full_context, idx,
                   gpc, garg, gret, calls, results, inflight, dl>>

Next ==
    \/ ReadAndRequestOverview
    \/ ReadFails
    \/ OverviewReturns
    \/ CallGenerateCellDoc
    \/ GenerateCellDocEnter
    \/ GenerateCellDocReturns
    \/ AppendDocumented
    \/ AppendMarkdown
    \/ PassOver
    \/ Finish

Spec == Init /\ [][Next]_vars

----------------------------------------------------------------------------
(* generate_cell_doc called on its own *)

Contexts == {<<>>, <<"x">>, <<"x", "\n", "\n", "y">>}

InitUnit ==
    /\ variant \in Variants
    /\ garg \in Sources
    /\ full_context \in Contexts
    /\ src = <<>>
    /\ cells = <<>>
    /\ new_nb = <<>>
    /\ prov = <<>>
    /\ idx = 1
    /\ pc = "unit"
    /\ gpc = "entry"
    /\ gret = <<>>
    /\ calls = <<>>
    /\ results = <<>>
    /\ inflight = 0
    /\ dl = DlIdle

NextUnit ==
    \/ GenerateCellDocEnter
    \/ GenerateCellDocReturns

SpecUnit == InitUnit /\ [][NextUnit]_vars

----------------------------------------------------------------------------
(* download_colab_notebook *)

FileIds == {"idA", "idB"}

NoMatch == "None"

\* what re.search gives for the three patterns, in order
MatchResults == [1..3 -> FileIds \cup {NoMatch}]

\* file_id after the for loop over patterns: group(1) of the first match
FirstMatch(m) ==
    IF \E k \in 1..3 : m[k] /= NoMatch
    THEN m[CHOOSE k \in 1..3 :
             /\ m[k] /= NoMatch
             /\ \A j \in 1..(k - 1) : m[j] = NoMatch]
    ELSE NoMatch

\* download_urls: "uc?id={file_id}", "uc?export=download&id={file_id}"
download_urls(file_id) ==
    <<[template |-> "uc?id=", id |-> file_id],
      [template |-> "uc?export=download&id=", id |-> file_id]>>

Bodies == {"nb1", "nb2", "html"}

\* nbformat.reads(response.content.decode('utf-8'), as_version=4) returns
Parses(body) == body \in {"nb1", "nb2"}

StatusCodes == {200, 404}

\* what one requests.get can do: raise, or give a response
HttpOutcomes ==
    [kind : {"raise"}, status_code : {0}, content : {"html"}]
      \cup [kind : {"response"}, status_code : StatusCodes, content : Bodies]

\* variation: the response returned without the parse
DlAcceptsUnparsed(r) ==
    r.kind = "response" /\ r.status_code = 200

\* the response is returned to the caller
DlAccepts(r) ==
    r.kind = "response" /\ r.status_code = 200 /\ Parses(r.content)

InitDownload ==
    /\ variant = "streamlit"
    /\ src = <<>>
    /\ cells = <<>>
    /\ new_nb = <<>>
    /\ prov = <<>>
    /\ full_context = <<>>
    /\ idx = 0
    /\ pc = "download"
    /\ gpc = "idle"
    /\ garg = <<>>
    /\ gret = <<>>
    /\ calls = <<>>
    /\ results = <<>>
    /\ inflight = 0
    /\ \E m \in MatchResults :
         dl = [pc |-> "patterns", matches |-> m, file_id |-> NoMatch,
               i |-> 0, requests |-> <<>>, responses |-> <<>>,
               result |-> NoMatch]

\* the for loop over patterns finds an identifier
DlExtract ==
    /\ dl.pc = "patterns"
    /\ FirstMatch(dl.matches) /= NoMatch
    /\ dl' = [dl EXCEPT !.file_id = FirstMatch(dl.matches),
                        !.i = 1, !.pc = "loop"]
    /\ UNCHANGED pipeVars

\* no pattern matches: ValueError("Could not extract file ID ...")
DlNoFileId ==
    /\ dl.pc = "patterns"
    /\ FirstMatch(dl.matches) = NoMatch
    /\ dl' = [dl EXCEPT !.pc = "no_file_id"]
    /\ UNCHANGED pipeVars

\* requests.get(download_url) is issued
DlRequest ==
    /\ dl.pc = "loop"
    /\ dl.i <= Len(download_urls(dl.file_id))
    /\ dl' = [dl EXCEPT
                !.requests = Append(@, download_urls(dl.file_id)[dl.i]),
                !.pc = "waiting"]
    /\ UNCHANGED pipeVars

\* requests.get ends: return the parsed notebook, or go on with the next url
DlResponse ==
    /\ dl.pc = "waiting"
    /\ \E r \in HttpOutcomes :
         dl' = IF DlAccepts(r)
               THEN [dl EXCEPT !.responses = Append(@, r),
                               !.result = r.content,
                               !.pc = "returned"]
               ELSE [dl EXCEPT !.responses = Append(@, r),
                               !.i = @ + 1,
                               !.pc = "loop"]
    /\ UNCHANGED pipeVars

\* after the loop: ValueError("Unable to download the notebook ...")
DlGiveUp ==
    /\ dl.pc = "loop"
    /\ dl.i > Len(download_urls(dl.file_id))
    /\ dl' = [dl EXCEPT !.pc = "not_accessible"]
    /\ UNCHANGED pipeVars

NextDownload ==
    \/ DlExtract
    \/ DlNoFileId
    \/ DlRequest
    \/ DlResponse
    \/ DlGiveUp

SpecDownload == InitDownload /\ [][NextDownload]_vars

----------------------------------------------------------------------------
(* Vocabulary of the properties *)

OutIdx == 1..Len(new_nb)

\* the loop has finished with cell i
Processed(i) ==
    \/ pc = "done"
    \/ pc \in {"loop", "in_doc"} /\ idx > i

\* input cell i is a code cell whose source is not empty after trimming
NonEmptyCode(c) == c.cell_type = "code" /\ Strip(c.source) /= <<>>

\* input cell i is a code cell whose source is empty after trimming
EmptyCode(c) == c.cell_type = "code" /\ Strip(c.source) = <<>>

\* output positions of the commentary generated for input cell i
DocPos(i) == {j \in OutIdx : prov[j] = [role |-> "doc", of |-> i]}

\* output positions of input cell i itself
OrigPos(i) == {j \in OutIdx : prov[j] = [role |-> "orig", of |-> i]}

\* finished annotation calls
CellResults == {k \in 1..Len(results) : results[k].target /= 0}

\* "*Error generating documentation", common to both entry points
ErrDocCommon == SubSeq(ErrDocApp, 1, Len(ErrDocApp) - 1)

\* "# Jupyter ...\n\n*Error generating overview", common to both
ErrOverviewCommon == SubSeq(ErrOverviewApp, 1, Len(ErrOverviewApp) - 1)

\* the targets of the completion calls a run must issue, in order
RECURSIVE ExpectedTargets(_, _)
ExpectedTargets(nb, i) ==
    IF i > Len(nb) THEN <<>>
    ELSE (IF NonEmptyCode(nb[i]) THEN <<i>> ELSE <<>>)
           \o ExpectedTargets(nb, i + 1)

CallTargets == [k \in 1..Len(calls) |-> calls[k].target]

IsPrefix(s, t) == Len(s) <= Len(t) /\ SubSeq(t, 1, Len(s)) = s

TypeOK ==
    /\ variant \in Variants
    /\ pc \in {"start", "aborted", "overview", "loop", "in_doc", "done",
               "unit", "download"}
    /\ gpc \in {"idle", "entry", "waiting", "returned"}
    /\ inflight \in 0..1
    /\ Len(new_nb) = Len(prov)

----------------------------------------------------------------------------
(* C1: at the end of create_documented_notebook every input cell appears   *)
(* in the output exactly once, with its kind and source unchanged, and in  *)
(* the input order; this includes code cells whose source is empty or      *)
(* whitespace-only.                                                        *)
C1_AllCellsKept ==
    pc = "done" =>
      /\ \A i \in 1..Len(src) :
           /\ Cardinality(OrigPos(i)) = 1
           /\ \A j \in OrigPos(i) : new_nb[j] = src[i]
      /\ \A i1, i2 \in 1..Len(src) :
           i1 < i2 => \A j1 \in OrigPos(i1), j2 \in OrigPos(i2) : j1 < j2

(* C2: whatever the overview call did (text, empty or whitespace-only      *)
(* text, failure), the first cell of the output is a markdown cell whose   *)
(* source is not empty.                                                    *)
C2_FirstCellNonEmptyProse ==
    pc \in {"loop", "in_doc", "done"} =>
      /\ new_nb /= <<>>
      /\ new_nb[1].cell_type = "markdown"
      /\ new_nb[1].source /= <<>>

(* C3: for a code cell with non-empty source whose annotation call         *)
(* succeeded with non-empty text, exactly one commentary cell is in the    *)
(* output, it is a markdown cell holding the returned text, and the cell   *)
(* right after it is that code cell, unchanged.                            *)
C3_CommentaryBeforeCode ==
    \A k \in CellResults :
      LET r == results[k] IN
        (/\ r.outcome.kind = "text"
         /\ r.returned /= <<>>
         /\ Processed(r.target))
        => /\ Cardinality(DocPos(r.target)) = 1
           /\ \A j \in DocPos(r.target) :
                /\ new_nb[j] = new_markdown_cell(r.returned)
                /\ j + 1 \in OrigPos(r.target)
                /\ new_nb[j + 1] = src[r.target]

C3_Witness ==
    /\ pc = "done"
    /\ \E k \in CellResults :
         /\ results[k].outcome.kind = "text"
         /\ results[k].outcome.text = <<" ", "d", "\n">>
         /\ results[k].returned = <<"d">>
         /\ DocPos(results[k].target) /= {}

(* C4: a failed completion call never ends the run.  The run aborts only   *)
(* before the first call; a failed overview call leaves the overview       *)
(* marker in the first cell; a failed annotation call leaves the           *)
(* documentation marker in the commentary cell right before its code cell; *)
(* and at the end every non-empty code cell has had its call and is in     *)
(* the output.                                                             *)
C4_FailureContained ==
    /\ pc = "aborted" => calls = <<>>
    /\ \A k \in 1..Len(results) :
         LET r == results[k] IN
           Raised(r.outcome) =>
             IF r.target = 0
             THEN /\ new_nb /= <<>>
                  /\ new_nb[1].cell_type = "markdown"
                  /\ StartsWith(new_nb[1].source, ErrOverviewCommon)
             ELSE Processed(r.target) =>
                    \E j \in DocPos(r.target) :
                      /\ new_nb[j].cell_type = "markdown"
                      /\ StartsWith(new_nb[j].source, ErrDocCommon)
                      /\ j + 1 \in OrigPos(r.target)
    /\ pc = "done" =>
         \A i \in 1..Len(src) :
           NonEmptyCode(src[i]) =>
             /\ \E k \in CellResults : results[k].target = i
             /\ \E j \in OrigPos(i) : new_nb[j] = src[i]

C4_Witness ==
    /\ pc = "done"
    /\ \E k1, k2 \in 1..Len(results) :
         /\ k1 < k2
         /\ results[k1].target /= 0
         /\ Raised(results[k1].outcome)
         /\ ~Raised(results[k2].outcome)
    /\ Raised(results[1].outcome)

(* C5: a run that has read its input issues the overview call first and    *)
(* then one annotation call per non-empty code cell, in cell order, never  *)
(* two at a time, whatever the earlier calls returned; at the end that is  *)
(* 1 + (number of non-empty code cells) calls.                             *)
C5_CallSequence ==
    pc \in {"overview", "loop", "in_doc", "done"} =>
      /\ inflight <= 1
      /\ Len(calls) = Len(results) + inflight
      /\ IsPrefix(CallTargets, <<0>> \o ExpectedTargets(src, 1))
      /\ pc = "done" =>
           /\ CallTargets = <<0>> \o ExpectedTargets(src, 1)
           /\ Len(calls) =
                1 + Cardinality({i \in 1..Len(src) : NonEmptyCode(src[i])})

C5_Witness ==
    /\ pc = "done"
    /\ Len(calls) = 3
    /\ Raised(results[1].outcome)
    /\ results[2].outcome.kind = "text"
    /\ results[2].returned = <<>>

(* C6: no commentary cell is in the output for a code cell whose source    *)
(* is empty after trimming.                                                *)
C6_NoCommentaryForEmptyCode ==
    \A i \in 1..Len(src) :
      (EmptyCode(src[i]) /\ pc \in {"loop", "in_doc", "done"})
        => /\ DocPos(i) = {}
           /\ \A j \in OrigPos(i) :
                j > 1 => prov[j - 1].role /= "doc" \/ prov[j - 1].of /= i

C6_Witness ==
    /\ pc = "done"
    /\ variant = "app"
    /\ \E i \in 1..Len(src) : EmptyCode(src[i]) /\ src[i].source = <<" ">>
    /\ \E i \in 1..Len(src) : DocPos(i) /= {}

(* C7: when the annotation call of a non-empty code cell returns empty or  *)
(* whitespace-only text without raising, no commentary cell is emitted     *)
(* for the cell and the code cell is emitted alone; when the call fails,   *)
(* a non-empty markdown cell is emitted right before the code cell.        *)
C7_EmptyResultSilent ==
    \A k \in CellResults :
      LET r == results[k] IN
        Processed(r.target) =>
          /\ (r.outcome.kind = "text" /\ Strip(r.outcome.text) = <<>>)
               => /\ DocPos(r.target) = {}
                  /\ Cardinality(OrigPos(r.target)) = 1
                  /\ \A j \in OrigPos(r.target) : new_nb[j] = src[r.target]
          /\ Raised(r.outcome)
               => \E j \in DocPos(r.target) :
                    /\ new_nb[j].cell_type = "markdown"
                    /\ new_nb[j].source /= <<>>
                    /\ j + 1 \in OrigPos(r.target)

C7_Witness ==
    /\ pc = "done"
    /\ \E k1, k2 \in CellResults :
         /\ results[k1].outcome.kind = "text"
         /\ results[k1].outcome.text = <<" ">>
         /\ DocPos(results[k1].target) = {}
         /\ results[k2].outcome.kind = "raise"
         /\ DocPos(results[k2].target) /= {}

(* C8: every failed annotation call returns the same marker, whatever the  *)
(* cause, and no successful annotation call returns that marker.           *)
C8_MarkerDeterministic ==
    \A k1, k2 \in CellResults :
      /\ (Raised(results[k1].outcome) /\ Raised(results[k2].outcome))
           => results[k1].returned = results[k2].returned
      /\ (Raised(results[k1].outcome) /\ ~Raised(results[k2].outcome))
           => results[k1].returned /= results[k2].returned

(* C9: generate_cell_doc called with empty or whitespace-only code issues  *)
(* no completion call and returns empty text, in both entry points.        *)
C9_AnnotatorSkipsEmpty ==
    (pc = "unit" /\ Strip(garg) = <<>>) =>
      /\ calls = <<>>
      /\ gpc = "returned" => gret = <<>>

(* C10: with an identifier extracted, download_colab_notebook requests     *)
(* the two url templates in their order, at most once each; it returns     *)
(* the first response with status 200 that parses; any other outcome of    *)
(* the first request leads to the second; the 'not publicly accessible'    *)
(* error is raised only after both have failed.                            *)
C10_DownloadOrder ==
    dl.pc \in {"loop", "waiting", "returned", "not_accessible"} =>
      LET n == Len(dl.requests)
          m == Len(dl.responses)
          Good(r) == /\ r.kind = "response"
                     /\ r.status_code = 200
                     /\ Parses(r.content)
      IN  /\ n <= 2
          /\ \A k \in 1..n : dl.requests[k] = download_urls(dl.file_id)[k]
          /\ dl.file_id = FirstMatch(dl.matches)
          /\ m = (IF dl.pc = "waiting" THEN n - 1 ELSE n)
          /\ \A k \in 1..(m - 1) : ~Good(dl.responses[k])
          /\ dl.pc = "returned" =>
               /\ Good(dl.responses[m])
               /\ dl.result = dl.responses[m].content
          /\ dl.pc = "loop" => (m = dl.i - 1 /\ (m > 0 => ~Good(dl.responses[m])))
          /\ dl.pc = "not_accessible" =>
               /\ m = 2
               /\ \A k \in 1..2 : ~Good(dl.responses[k])

C10_Witness ==
    /\ dl.pc = "returned"
    /\ Len(dl.responses) = 2
    /\ dl.responses[1].kind = "response"
    /\ dl.responses[1].status_code = 200
    /\ ~Parses(dl.responses[1].content)
    /\ dl.result = "nb2"
====
